---- MODULE Spec2Model ----
(***************************************************************************)
(* A model of the site-info browser extension: the in-page analysis engine *)
(* (src/src/content.js) and the popup's trigger protocol (popup.js, kept   *)
(* as src/unnamed/part_000).                                               *)
(*                                                                         *)
(* JavaScript values are encoded as follows.                               *)
(*   - an object is a record; "has field f" is  f \in DOMAIN obj           *)
(*   - undefined / null in an object position are the records Undefined    *)
(*     and Null; null in a string position is the string NullString        *)
(*   - an array, and a Map or Set in insertion order, is a sequence        *)
(*   - a CSS colour string is the string itself; what the regular          *)
(*     expression of rgbaToHex captures from it is the table rgbaMatch     *)
(***************************************************************************)
EXTENDS Integers, Sequences, FiniteSets, TLC

VARIABLES
  SITE_INFO,      \* window.__SITE_INFO__, the published slot of the page
  enginePc,       \* where the content script's IIFE stands ("idle": not running)
  invoker,        \* who started the running IIFE: "popup" or "page"
  typography,     \* content.js:16  let typography
  colors,         \* content.js:24  let colors
  technologies,   \* content.js:32  let technologies
  analyzerRuns,   \* how often each analyzer was called in this page context
  analyzerThrew,  \* per analyzer, the message it threw in the last run (or NoThrow)
  outerThrown,    \* the message thrown outside the analyzers' wrappers in the last run
  invocations,    \* how often the content script was executed in this page context
  uncaught,       \* how many executions ended with an exception leaving the IIFE
  now,            \* the clock behind new Date()
  dom,            \* the elements under document.body, in document order
  body,           \* the computed style of document.body (NoBody: document.body is null)
  env,            \* what each technology rule's predicate does on this page
  sampled,        \* the maps and sets getColors filled while walking the page
  palette,        \* the return value of getColors (colours specification)
  colorsRaised,   \* did an exception leave getColors
  tech,           \* the return value of detectTechnologies (technology specification)
  typo,           \* what the typography wrapper produced (typography specification)
  evaluated,      \* the labels of the rules whose predicate was called, in order
  popupPc,        \* where the popup's DOMContentLoaded handler stands
  popupView,      \* what the popup's #root shows
  popupLog,       \* the steps of the current popup session, in order
  sessions        \* how many popup sessions were opened

vars == <<SITE_INFO, enginePc, invoker, typography, colors, technologies,
          analyzerRuns, analyzerThrew, outerThrown, invocations, uncaught, now,
          dom, body,
          env, sampled, palette, colorsRaised, tech, typo, evaluated,
          popupPc, popupView, popupLog, sessions>>

engineVars == <<SITE_INFO, enginePc, invoker, typography, colors, technologies,
                analyzerRuns, analyzerThrew, outerThrown, invocations, uncaught,
                now>>
pageVars   == <<dom, body, env>>
pureVars   == <<sampled, palette, colorsRaised, tech, typo, evaluated>>
popupVars  == <<popupPc, popupView, popupLog, sessions>>

-----------------------------------------------------------------------------
(* Bounds of the model *)

MaxInvocations == 3   \* executions of the content script in one page context
MaxSessions    == 2   \* popup sessions
MaxElements    == 2   \* elements under document.body
MaxSignals     == 2   \* technology rules whose predicate is not plainly falsy
MaxParagraphs  == 6   \* length of a run of paragraphs on a typography page
MaxSwatches    == 14  \* elements of pairwise different background on a palette page
MaxRepeats     == 2   \* further elements on a palette page that repeat a colour

-----------------------------------------------------------------------------
(* JavaScript values *)

Undefined  == [jsUndefined |-> TRUE]
Null       == [jsNull |-> TRUE]
NullString == "<null>"

Truthy(v) == v # Undefined /\ v # Null
HasField(obj, f) == f \in DOMAIN obj

-----------------------------------------------------------------------------
(* detectTechnologies                                                      *)

Truthy_ == "truthy"
Falsy_  == "falsy"
Throws_ == "throws"

\* The rules in the order the source evaluates them.  parent: the rule a
\* conditional sub-rule is nested in ("" for none); guarded: the predicate has
\* a try/catch of its own that turns a throw into false.
Rule(label, category, parent, guarded) ==
  [label |-> label, category |-> category, parent |-> parent, guarded |-> guarded]

RuleTable == <<
  Rule("React",            "frameworks", "",       FALSE),
  Rule("Next.js",          "frameworks", "React",  FALSE),
  Rule("Angular",          "frameworks", "",       FALSE),
  Rule("Vue.js",           "frameworks", "",       FALSE),
  Rule("Nuxt.js",          "frameworks", "Vue.js", FALSE),
  Rule("Svelte",           "frameworks", "",       FALSE),
  Rule("Vite",             "tools",      "",       FALSE),
  Rule("GSAP",             "libraries",  "",       FALSE),
  Rule("Anime.js",         "libraries",  "",       FALSE),
  Rule("Three.js",         "libraries",  "",       FALSE),
  Rule("Framer Motion",    "libraries",  "",       FALSE),
  Rule("Tailwind CSS",     "libraries",  "",       FALSE),
  Rule("Bootstrap",        "libraries",  "",       FALSE),
  Rule("Material UI",      "libraries",  "",       FALSE),
  Rule("Google Analytics", "analytics",  "",       FALSE),
  Rule("Facebook Pixel",   "analytics",  "",       FALSE),
  Rule("Vercel",           "hosting",    "",       FALSE),
  Rule("Netlify",          "hosting",    "",       FALSE),
  Rule("GitHub Pages",     "hosting",    "",       FALSE),
  Rule("WordPress",        "hosting",    "",       FALSE),
  Rule("Shopify",          "hosting",    "",       FALSE),
  Rule("Wix",              "hosting",    "",       FALSE),
  Rule("Squarespace",      "hosting",    "",       FALSE),
  Rule("jQuery",           "tools",      "",       FALSE),
  Rule("Lodash",           "tools",      "",       FALSE),
  Rule("Moment.js",        "tools",      "",       FALSE),
  Rule("D3.js",            "tools",      "",       FALSE),
  Rule("Chart.js",         "tools",      "",       FALSE),
  Rule("Axios",            "tools",      "",       FALSE),
  Rule("GraphQL",          "tools",      "",       TRUE) >>

NumRules == Len(RuleTable)
Labels   == {RuleTable[i].label : i \in 1..NumRules}

\* What calling the rule's predicate does: the page decides (e[label]), except
\* that the GraphQL detector catches its own exceptions and returns false.
Predicate(rule, e) ==
  IF rule.guarded /\ e[rule.label] = Throws_ THEN Falsy_ ELSE e[rule.label]

\* function safeDetect(fn): try { return fn() || false } catch (e) { return false }
\* The result is "true" (a truthy value came back), "false", or "throw" (an
\* exception leaves safeDetect).
\* (safeDetectNoCatch: the same without the try/catch.)
safeDetectNoCatch(outcome) ==
  IF outcome = Truthy_ THEN "true" ELSE IF outcome = Throws_ THEN "throw" ELSE "false"
safeDetect(outcome) ==
  IF outcome = Truthy_ THEN "true" ELSE "false"

\* const tech = { frameworks: [], libraries: [], analytics: [], hosting: null, tools: [] }
\* (EmptyTechHostingBlank: the same with hosting: '' in place of null.)
EmptyTechHostingBlank ==
  [frameworks |-> <<>>, libraries |-> <<>>, analytics |-> <<>>,
   hosting |-> "", tools |-> <<>>]
EmptyTech ==
  [frameworks |-> <<>>, libraries |-> <<>>, analytics |-> <<>>,
   hosting |-> NullString, tools |-> <<>>]

\* tech.<category>.push(label), or tech.hosting = platform
Record(t, rule) ==
  IF rule.category = "hosting"
    THEN [t EXCEPT !.hosting = rule.label]
    ELSE [t EXCEPT ![rule.category] = Append(@, rule.label)]

\* for (const [platform, detector] of Object.entries(hostingClues))
\*   if (detector()) { tech.hosting = platform; break; }
\* (HostingLoopNoBreak: the same loop without the break.)
HostingLoopNoBreak(rule, t) == TRUE
HostingLoopRuns(rule, t) ==
  rule.category = "hosting" => t.hosting = NullString

\* Is the rule's predicate called at all?  A sub-rule sits inside its parent's
\* if-body; a hosting rule sits in a loop that breaks at the first match.
IsEvaluated(rule, acc) ==
  /\ rule.parent # "" => rule.parent \in acc.detected
  /\ HostingLoopRuns(rule, acc.tech)

\* The body of detectTechnologies from the first rule on.  acc.threw: an
\* exception left a rule's wrapper, which ends the function there.
RECURSIVE ScanRules(_, _, _)
ScanRules(i, e, acc) ==
  IF i > NumRules \/ acc.threw THEN acc
  ELSE LET rule == RuleTable[i] IN
    IF ~IsEvaluated(rule, acc) THEN ScanRules(i + 1, e, acc)
    ELSE LET res  == safeDetect(Predicate(rule, e))
             hit  == res = "true"
             next == [tech      |-> IF hit THEN Record(acc.tech, rule) ELSE acc.tech,
                      detected  |-> IF hit THEN acc.detected \cup {rule.label}
                                           ELSE acc.detected,
                      evaluated |-> Append(acc.evaluated, rule.label),
                      threw     |-> res = "throw"]
         IN ScanRules(i + 1, e, next)

\* function detectTechnologies(): the report (tech), the rules whose predicate
\* was called (evaluated), and whether an exception left the function (threw).
detectTechnologies(e) ==
  ScanRules(1, e, [tech |-> EmptyTech, detected |-> {}, evaluated |-> <<>>,
                   threw |-> FALSE])

-----------------------------------------------------------------------------
(* getColors                                                               *)

\* A Map in insertion order: a sequence of [key, value] entries.
MapHas(m, k) == \E i \in 1..Len(m) : m[i].key = k
MapKeys(m) == {m[i].key : i \in 1..Len(m)}
\* map.get(k) || 0
MapGetOr0(m, k) ==
  IF MapHas(m, k) THEN (CHOOSE e \in {m[i] : i \in 1..Len(m)} : e.key = k).value ELSE 0
\* map.set(k, v): an existing key keeps its place
MapSet(m, k, v) ==
  IF MapHas(m, k)
    THEN [i \in 1..Len(m) |-> IF m[i].key = k THEN [key |-> k, value |-> v] ELSE m[i]]
    ELSE Append(m, [key |-> k, value |-> v])
\* set.add(x)
SetAdd(s, x) == IF \E i \in 1..Len(s) : s[i] = x THEN s ELSE Append(s, x)

\* Array.prototype.sort((a, b) => w(b) - w(a)): descending and stable.  w[i] is
\* the number the comparator reads from seq[i]; the result lists the indices.
\* (InsertDescUnstable: a sort that puts a later element before its equals.)
RECURSIVE InsertDescUnstable(_, _, _)
InsertDescUnstable(sorted, i, w) ==
  IF sorted = <<>> THEN <<i>>
  ELSE IF w[Head(sorted)] > w[i]
         THEN <<Head(sorted)>> \o InsertDescUnstable(Tail(sorted), i, w)
         ELSE <<i>> \o sorted
RECURSIVE InsertDesc(_, _, _)
InsertDesc(sorted, i, w) ==
  IF sorted = <<>> THEN <<i>>
  ELSE IF w[Head(sorted)] >= w[i]
         THEN <<Head(sorted)>> \o InsertDesc(Tail(sorted), i, w)
         ELSE <<i>> \o sorted
RECURSIVE SortOrder(_, _, _)
SortOrder(i, sorted, w) ==
  IF i > Len(w) THEN sorted ELSE SortOrder(i + 1, InsertDesc(sorted, i, w), w)
SortDesc(seq, w) ==
  LET order == SortOrder(1, <<>>, w) IN [k \in 1..Len(seq) |-> seq[order[k]]]

\* The computed colour strings of the model, and what
\*   rgba.match(/rgba?\((\d+),\s*(\d+),\s*(\d+)(?:,\s*([0-9.]+))?\)/)
\* captures from each (Null: no match).
Red        == "rgb(255, 0, 0)"
RedHalf    == "rgba(255, 0, 0, 0.5)"
RedClear   == "rgba(255, 0, 0, 0)"
Blue       == "rgb(0, 0, 255)"
Clear      == "rgba(0, 0, 0, 0)"
Keyword    == "transparent"
Unparsed   == "color(srgb 1 0 0)"
NoColor    == ""

\* The greys rgb(n, n, n), n = 1..MaxSwatches: a supply of different colours.
Digits == <<"0", "1", "2", "3", "4", "5", "6", "7", "8", "9">>
RECURSIVE ToString10(_)
ToString10(n) ==
  IF n < 10 THEN Digits[n + 1] ELSE ToString10(n \div 10) \o Digits[(n % 10) + 1]
Gray(n) ==
  "rgb(" \o ToString10(n) \o ", " \o ToString10(n) \o ", " \o ToString10(n) \o ")"
Grays == [n \in 1..MaxSwatches |-> Gray(n)]
IsGray(rgba) == \E n \in 1..MaxSwatches : Grays[n] = rgba
GrayLevel(rgba) == CHOOSE n \in 1..MaxSwatches : Grays[n] = rgba

Captures(r, g, b, a) == [r |-> r, g |-> g, b |-> b, a |-> a]
rgbaMatch(rgba) ==
  CASE rgba = Red      -> Captures(255, 0, 0, "")
    [] rgba = RedHalf  -> Captures(255, 0, 0, "0.5")
    [] rgba = RedClear -> Captures(255, 0, 0, "0")
    [] rgba = Blue     -> Captures(0, 0, 255, "")
    [] rgba = Clear    -> Captures(0, 0, 0, "0")
    [] IsGray(rgba)    -> Captures(GrayLevel(rgba), GrayLevel(rgba), GrayLevel(rgba), "")
    [] OTHER           -> Null

\* Number.prototype.toString(16) and String.prototype.padStart(2, '0')
HexDigits == <<"0", "1", "2", "3", "4", "5", "6", "7",
               "8", "9", "a", "b", "c", "d", "e", "f">>
RECURSIVE ToString16(_)
ToString16(n) ==
  IF n < 16 THEN HexDigits[n + 1]
  ELSE ToString16(n \div 16) \o HexDigits[(n % 16) + 1]
PadStart2(str) == IF Len(str) < 2 THEN "0" \o str ELSE str

\* What a TypeError thrown inside rgbaToHex is written as.
TypeError == "<TypeError>"

\* function rgbaToHex(rgba)
\* (rgbaToHexNoGuard: the same without  if (!rgbaMatch) return rgba,  so that
\* rgbaMatch[1] is read from null.)
rgbaToHexNoGuard(rgba) ==
  IF rgba = NoColor \/ rgba = Keyword \/ rgba = Clear THEN NullString
  ELSE LET m == rgbaMatch(rgba) IN
    IF m = Null THEN TypeError
    ELSE "#" \o PadStart2(ToString16(m.r)) \o PadStart2(ToString16(m.g))
             \o PadStart2(ToString16(m.b))
rgbaToHex(rgba) ==
  IF rgba = NoColor \/ rgba = Keyword \/ rgba = Clear THEN NullString
  ELSE LET m == rgbaMatch(rgba) IN
    IF m = Null THEN rgba
    ELSE "#" \o PadStart2(ToString16(m.r)) \o PadStart2(ToString16(m.g))
             \o PadStart2(ToString16(m.b))

\* if (bgColor && bgColor !== 'rgba(0, 0, 0, 0)' && bgColor !== 'transparent')
BackgroundCounts(bgColor) ==
  bgColor # NoColor /\ bgColor # Clear /\ bgColor # Keyword

\* if (textColor)
TextCounts(textColor) == textColor # NoColor

\* el.tagName === 'BUTTON' || el.tagName === 'A' || style.cursor === 'pointer' ||
\* el.classList.contains('btn') || el.classList.contains('button')
IsInteractive(el) ==
  \/ el.tagName = "BUTTON"
  \/ el.tagName = "A"
  \/ el.cursor = "pointer"
  \/ "btn" \in el.classList
  \/ "button" \in el.classList

EmptySample ==
  [colorMap |-> <<>>, buttonColors |-> <<>>, linkColors |-> <<>>,
   backgroundColors |-> <<>>, textColors |-> <<>>]

\* The body of the while (walker.nextNode()) loop for one element.
SampleElement(acc, el) ==
  LET bgColor   == el.backgroundColor
      textColor == el.color
      area      == el.clientWidth * el.clientHeight
      s1 == IF BackgroundCounts(bgColor)
              THEN [acc EXCEPT
                     !.backgroundColors = MapSet(@, bgColor, MapGetOr0(@, bgColor) + area),
                     !.colorMap = MapSet(@, bgColor, MapGetOr0(@, bgColor) + 1)]
              ELSE acc
      s2 == IF TextCounts(textColor)
              THEN [s1 EXCEPT
                     !.textColors = MapSet(@, textColor,
                                           MapGetOr0(@, textColor) + el.textLength),
                     !.colorMap = MapSet(@, textColor, MapGetOr0(@, textColor) + 1)]
              ELSE s1
      s3 == IF IsInteractive(el) /\ BackgroundCounts(bgColor)
              THEN [s2 EXCEPT !.buttonColors = SetAdd(@, bgColor)]
              ELSE s2
      s4 == IF IsInteractive(el) /\ el.tagName = "A" /\ textColor # NoColor
              THEN [s3 EXCEPT !.linkColors = SetAdd(@, textColor)]
              ELSE s3
  IN s4

\* The whole traversal: every element under document.body, in document order.
RECURSIVE SampleFrom(_, _)
SampleFrom(els, acc) ==
  IF els = <<>> THEN acc ELSE SampleFrom(Tail(els), SampleElement(acc, Head(els)))
SampleColors(els) == SampleFrom(els, EmptySample)

\* One step of the forEach over colorMap.entries() that fills uniqueColors.
\* An entry whose hex is null is left out.
\* (MergeSumCounts: a merge that adds the counts of the raw colours up.)
MergeSumCounts(existing, color, count) ==
  [existing EXCEPT !.count = @ + count]
MergeKeepHigher(existing, color, count) ==
  IF count > existing.count
    THEN [existing EXCEPT !.count = count, !.originalColor = color]
    ELSE existing

\* (UniqueStepNoDedup: the same without the uniqueColors.has(hex) test.)
UniqueStepNoDedup(unique, entry) ==
  LET hex == rgbaToHex(entry.key) IN
  IF hex = NullString THEN unique
  ELSE Append(unique, [color |-> hex, originalColor |-> entry.key, count |-> entry.value])
UniqueStep(unique, entry) ==
  LET hex == rgbaToHex(entry.key) IN
  IF hex = NullString THEN unique
  ELSE IF ~\E i \in 1..Len(unique) : unique[i].color = hex
    THEN Append(unique, [color |-> hex, originalColor |-> entry.key, count |-> entry.value])
    ELSE [i \in 1..Len(unique) |->
            IF unique[i].color = hex
              THEN MergeKeepHigher(unique[i], entry.key, entry.value)
              ELSE unique[i]]

RECURSIVE UniqueFrom(_, _)
UniqueFrom(entries, unique) ==
  IF entries = <<>> THEN unique
  ELSE UniqueFrom(Tail(entries), UniqueStep(unique, Head(entries)))
\* const uniqueColors: the values of the Map, in insertion order
UniqueColors(colorMap) == UniqueFrom(colorMap, <<>>)

\* (a, b) => b[1] - a[1]  and  (a, b) => b.count - a.count
ByValue(entries) == [i \in 1..Len(entries) |-> entries[i].value]
ByCount(entries) == [i \in 1..Len(entries) |-> entries[i].count]

\* A role field: { color: rgbaToHex(raw), originalColor: raw }
Role(raw) == [color |-> rgbaToHex(raw), originalColor |-> raw]

\* sortedByArea[0][0] / sortedByTextUsage[0][0]
TopWeight(weights) == SortDesc(weights, ByValue(weights))[1].key

PaletteLimit == 12

\* const palette = { background, text, accent, link, all }
BuildPalette(s) ==
  [background |-> IF Len(s.backgroundColors) > 0
                    THEN Role(TopWeight(s.backgroundColors)) ELSE Null,
   text       |-> IF Len(s.textColors) > 0
                    THEN Role(TopWeight(s.textColors)) ELSE Null,
   accent     |-> IF Len(s.buttonColors) > 0 THEN Role(s.buttonColors[1]) ELSE Null,
   link       |-> IF Len(s.linkColors) > 0 THEN Role(s.linkColors[1]) ELSE Null,
   all        |-> LET unique == UniqueColors(s.colorMap)
                      sorted == SortDesc(unique, ByCount(unique))
                  IN SubSeq(sorted, 1, IF Len(sorted) < PaletteLimit
                                         THEN Len(sorted) ELSE PaletteLimit)]

\* Does an exception leave getColors?  The only throwing statement the model
\* knows is a TypeError inside rgbaToHex, which is first called on every key
\* of colorMap (and every colour of the other maps and sets is such a key).
Raises(s) == \E i \in 1..Len(s.colorMap) : rgbaToHex(s.colorMap[i].key) = TypeError

\* function getColors()
getColors(els) == BuildPalette(SampleColors(els))

-----------------------------------------------------------------------------
(* getTypography                                                           *)

\* The computed style strings getTypography reads from an element.
Style(fontFamily, fontSize) ==
  [fontFamily |-> fontFamily, fontSize |-> fontSize, lineHeight |-> "normal",
   fontWeight |-> "400", letterSpacing |-> "normal"]

\* style.fontFamily.split(',')[0].trim().replace(/["']/g, '') on the font
\* family strings of the model
PrimaryFamily(fontFamily) ==
  CASE fontFamily = "\"Helvetica Neue\", Arial" -> "Helvetica Neue"
    [] fontFamily = "Arial, sans-serif"         -> "Arial"
    [] fontFamily = "Georgia"                   -> "Georgia"
    [] OTHER                                    -> fontFamily

\* parseFloat on the font size strings of the model, in tenths of a pixel;
\* NaN when the string does not start with a number.
NaN == -1
parseFloat(fontSize) ==
  CASE fontSize = "16px"   -> 160
    [] fontSize = "20px"   -> 200
    [] fontSize = "24px"   -> 240
    [] fontSize = "24.8px" -> 248
    [] fontSize = "28.8px" -> 288
    [] fontSize = "0px"    -> 0
    [] OTHER               -> NaN

\* const commonScales: the ratios in thousandths, in key order, and the names
CommonScales == <<
  [value |-> 1067, name |-> "Minor Second (1.067)"],
  [value |-> 1125, name |-> "Major Second (1.125)"],
  [value |-> 1200, name |-> "Minor Third (1.2)"],
  [value |-> 1250, name |-> "Major Third (1.25)"],
  [value |-> 1333, name |-> "Perfect Fourth (1.333)"],
  [value |-> 1414, name |-> "Augmented Fourth (1.414)"],
  [value |-> 1500, name |-> "Perfect Fifth (1.5)"],
  [value |-> 1618, name |-> "Golden Ratio (1.618)"] >>

Abs(x) == IF x < 0 THEN -x ELSE x

\* Math.round((h1FontSize / bodyFontSize) * 100), the ratio in hundredths
RoundedRatio(h1FontSize, bodyFontSize) ==
  (2 * 100 * h1FontSize + bodyFontSize) \div (2 * bodyFontSize)

\* scaleValues.reduce((prev, curr) =>
\*   Math.abs(curr - typeScale) < Math.abs(prev - typeScale) ? curr : prev)
RECURSIVE ClosestFrom(_, _, _)
ClosestFrom(i, prev, ratio) ==
  IF i > Len(CommonScales) THEN prev
  ELSE ClosestFrom(i + 1,
         IF Abs(CommonScales[i].value - 10 * ratio) < Abs(CommonScales[prev].value - 10 * ratio)
           THEN i ELSE prev,
         ratio)
ClosestScale(ratio) == ClosestFrom(2, 1, ratio)

\* Math.abs(closestScale - typeScale) <= 0.05 in IEEE doubles.  For a ratio of
\* two decimals that is exactly 0.05 from a table value (1.5 and 1.55, say) the
\* computed difference is 0.050000000000000044, which is not <= 0.05.
WithinTolerance(scale, ratio) == Abs(scale - 10 * ratio) < 50

\* Number.prototype.toString() of a number of hundredths
HundredthsToString(h) ==
  ToString10(h \div 100) \o
    (IF h % 100 = 0 THEN ""
     ELSE IF h % 10 = 0 THEN "." \o Digits[((h % 100) \div 10) + 1]
     ELSE "." \o Digits[((h % 100) \div 10) + 1] \o Digits[(h % 10) + 1])

\* Lines 113-147: let typeScale = null; if (headings.h1) { ... }
TypeScale(headings, bodyStyle) ==
  IF "h1" \notin DOMAIN headings THEN NullString
  ELSE LET h1FontSize   == parseFloat(headings["h1"].fontSize)
           bodyFontSize == parseFloat(bodyStyle.fontSize)
       IN IF h1FontSize = NaN \/ bodyFontSize = NaN \/ ~(bodyFontSize > 0)
            THEN NullString
            ELSE LET ratio   == RoundedRatio(h1FontSize, bodyFontSize)
                     closest == CommonScales[ClosestScale(ratio)]
                 IN IF WithinTolerance(closest.value, ratio)
                      THEN closest.name
                      ELSE HundredthsToString(ratio)

\* document.querySelectorAll(tag), in document order
RECURSIVE QuerySelectorAll(_, _)
QuerySelectorAll(els, tagName) ==
  IF els = <<>> THEN <<>>
  ELSE (IF Head(els).tagName = tagName THEN <<Head(els)>> ELSE <<>>)
         \o QuerySelectorAll(Tail(els), tagName)

HeadingTags == [h1 |-> "H1", h2 |-> "H2", h3 |-> "H3", h4 |-> "H4", h5 |-> "H5", h6 |-> "H6"]
HeadingOrder == <<"h1", "h2", "h3", "h4", "h5", "h6">>

StyleSample(style) ==
  [fontFamily |-> style.fontFamily, fontSize |-> style.fontSize,
   lineHeight |-> style.lineHeight, fontWeight |-> style.fontWeight,
   letterSpacing |-> style.letterSpacing]

\* headings[`h${i}`] = { ...style of elements[0], count: elements.length }
\* (HeadingSampleLast: the same with the last element as the representative.)
HeadingSampleLast(elements) ==
  LET style == elements[Len(elements)].style IN
  [fontFamily |-> style.fontFamily, fontSize |-> style.fontSize,
   lineHeight |-> style.lineHeight, fontWeight |-> style.fontWeight,
   letterSpacing |-> style.letterSpacing, count |-> Len(elements)]
HeadingSample(elements) ==
  LET style == elements[1].style IN
  [fontFamily |-> style.fontFamily, fontSize |-> style.fontSize,
   lineHeight |-> style.lineHeight, fontWeight |-> style.fontWeight,
   letterSpacing |-> style.letterSpacing, count |-> Len(elements)]

\* Lines 66-82: the headings object
Headings(els) ==
  [h \in {k \in DOMAIN HeadingTags : Len(QuerySelectorAll(els, HeadingTags[k])) > 0} |->
     HeadingSample(QuerySelectorAll(els, HeadingTags[h]))]

ParagraphSampleSize == 5

\* Lines 84-100: Array.from(pElements).slice(0, Math.min(5, pElements.length))
Paragraphs(els) ==
  LET pElements == QuerySelectorAll(els, "P")
      n == IF Len(pElements) < ParagraphSampleSize THEN Len(pElements)
                                                   ELSE ParagraphSampleSize
  IN [i \in 1..n |-> StyleSample(pElements[i].style)]

\* fontFamiliesUsed: the headings' first elements, the sampled paragraphs, body
RECURSIVE AddFamilies(_, _)
AddFamilies(set, samples) ==
  IF samples = <<>> THEN set
  ELSE AddFamilies(SetAdd(set, PrimaryFamily(Head(samples).fontFamily)), Tail(samples))
RECURSIVE HeadingSamples(_, _)
HeadingSamples(headings, i) ==
  IF i > Len(HeadingOrder) THEN <<>>
  ELSE (IF HeadingOrder[i] \in DOMAIN headings THEN <<headings[HeadingOrder[i]]>> ELSE <<>>)
         \o HeadingSamples(headings, i + 1)

\* const bodyStyle = getComputedStyle(document.body) when document.body is null
\* (a document without a body element, such as a standalone SVG document):
\* getComputedStyle throws a TypeError.
NoBody == Null

\* Does an exception leave getTypography?  The function has no try/catch of its
\* own, so the one style read that can fail ends it.
TypographyRaises(els, bodyStyle) == bodyStyle = NoBody

\* function getTypography()
getTypography(els, bodyStyle) ==
  LET headings   == Headings(els)
      paragraphs == Paragraphs(els)
  IN [body         |-> StyleSample(bodyStyle),
      headings     |-> headings,
      paragraphs   |-> paragraphs,
      fontFamilies |-> AddFamilies(AddFamilies(AddFamilies(<<>>,
                          HeadingSamples(headings, 1)), paragraphs), <<bodyStyle>>),
      typeScale    |-> TypeScale(headings, bodyStyle)]

-----------------------------------------------------------------------------
(* The content script: the IIFE of content.js                              *)

Analyzers == {"typography", "colors", "technologies"}

NoThrow  == ""
Messages == {"body is null", "not allowed"}

\* window.location.href and document.title of the page of the model
PageUrl   == "https://example.test/"
PageTitle == "Example"

\* window.__SITE_INFO__ = { status: 'analyzing' }
Sentinel == [status |-> "analyzing"]

\* if (window.__SITE_INFO__) return;
\* (NoGuard: the script without this test.)
\* (GuardReportsOnly: a test that lets the script run again after an error
\* result.)
NoGuard(slot) == FALSE
GuardReportsOnly(slot) == Truthy(slot) /\ ~HasField(slot, "error")
AlreadyAnalyzed(slot) == Truthy(slot)

\* try { x = analyzer() } catch (e) { x = { error: e.message } }: does the
\* analyzer's own try/catch take the exception?
\* (InnerCatchMissing: getColors called outside a try of its own.)
InnerCatchMissing(analyzer) == analyzer # "colors"
InnerCatches(analyzer) == TRUE

\* catch (e) { ...; x = { error: e.message } }
SectionError(message) == [error |-> message]

\* const siteInfo = { typography, colors, technologies, url, title, timestamp }
SiteInfo(t, c, k, time) ==
  [typography |-> t, colors |-> c, technologies |-> k,
   url |-> PageUrl, title |-> PageTitle, timestamp |-> time]

\* window.__SITE_INFO__ = siteInfo
\* (FinalWriteSkipped: the report is built and logged but never assigned.)
FinalWriteSkipped(slot, siteInfo) == slot
FinalWrite(slot, siteInfo) == siteInfo

\* catch (error) { window.__SITE_INFO__ = { error: error.message, timestamp } }
\* Does the outer handler take the exception, and what does it publish?
\* (OuterCatchMissing: the IIFE without the outer try/catch.)
OuterCatchMissing == FALSE
OuterCatches == TRUE
EngineError(message, time) == [error |-> message, timestamp |-> time]

\* An exception reaches the outer try: the handler publishes the error result,
\* or (were there no handler) the exception leaves the IIFE.
OuterThrow(message) ==
  IF OuterCatches
    THEN /\ SITE_INFO' = EngineError(message, now)
         /\ uncaught' = uncaught
    ELSE /\ SITE_INFO' = SITE_INFO
         /\ uncaught' = uncaught + 1

\* Lines 2-13: the script starts, tests the guard, and writes the sentinel.
ContentScriptEntry(who) ==
  /\ enginePc = "idle"
  /\ invocations < MaxInvocations
  /\ invocations' = invocations + 1
  /\ now' = now + 1
  /\ invoker' = who
  /\ IF AlreadyAnalyzed(SITE_INFO)
       THEN UNCHANGED <<SITE_INFO, enginePc, typography, colors, technologies,
                        analyzerRuns, analyzerThrew, outerThrown, uncaught>>
       ELSE /\ SITE_INFO' = Sentinel
            /\ enginePc' = "typography"
            /\ typography' = Undefined
            /\ colors' = Undefined
            /\ technologies' = Undefined
            /\ analyzerThrew' = [a \in Analyzers |-> NoThrow]
            /\ outerThrown' = NoThrow
            /\ UNCHANGED <<analyzerRuns, uncaught>>

\* The content script is executed in the page by something other than the
\* popup session of the model (another popup instance, a reload of the script).
PageRunsContentScript ==
  /\ ContentScriptEntry("page")
  /\ UNCHANGED <<pageVars, pureVars, popupVars>>

\* One analyzer's try/catch (lines 16-22, 24-30, 32-38).  thrown: the message
\* of the exception the analyzer ends with, or NoThrow; result: what it returns.
AnalyzerStep(analyzer, thrown, result, nextPc) ==
  /\ analyzerRuns' = [analyzerRuns EXCEPT ![analyzer] = @ + 1]
  /\ IF thrown = NoThrow
       THEN /\ enginePc' = nextPc
            /\ analyzerThrew' = analyzerThrew
            /\ UNCHANGED <<SITE_INFO, uncaught>>
       ELSE /\ analyzerThrew' = [analyzerThrew EXCEPT ![analyzer] = thrown]
            /\ IF InnerCatches(analyzer)
                 THEN /\ enginePc' = nextPc
                      /\ UNCHANGED <<SITE_INFO, uncaught>>
                 ELSE /\ enginePc' = "idle"
                      /\ OuterThrow(thrown)
  /\ UNCHANGED <<invoker, outerThrown, invocations, now, pageVars, pureVars,
                 popupVars>>

Section(analyzer, thrown, result) ==
  IF thrown = NoThrow THEN result
  ELSE IF InnerCatches(analyzer) THEN SectionError(thrown) ELSE Undefined

\* let typography; try { typography = getTypography() } catch (e) { ... }
RunTypography ==
  /\ enginePc = "typography"
  /\ \E thrown \in {NoThrow} \cup Messages :
       LET raised == IF thrown = NoThrow /\ TypographyRaises(dom, body)
                       THEN TypeError ELSE thrown
       IN /\ AnalyzerStep("typography", raised, getTypography(dom, body), "colors")
          /\ typography' = Section("typography", raised, getTypography(dom, body))
  /\ UNCHANGED <<colors, technologies>>

\* let colors; try { colors = getColors() } catch (e) { ... }
RunColors ==
  /\ enginePc = "colors"
  /\ \E thrown \in {NoThrow} \cup Messages :
       LET raised == IF thrown = NoThrow /\ Raises(SampleColors(dom))
                       THEN TypeError ELSE thrown
       IN /\ AnalyzerStep("colors", raised, getColors(dom), "technologies")
          /\ colors' = Section("colors", raised, getColors(dom))
  /\ UNCHANGED <<typography, technologies>>

\* let technologies; try { technologies = detectTechnologies() } catch (e) { ... }
RunTechnologies ==
  /\ enginePc = "technologies"
  /\ \E thrown \in {NoThrow} \cup Messages :
       LET scan   == detectTechnologies(env)
           raised == IF thrown = NoThrow /\ scan.threw THEN TypeError ELSE thrown
       IN /\ AnalyzerStep("technologies", raised, scan.tech, "assemble")
          /\ technologies' = Section("technologies", raised, scan.tech)
  /\ UNCHANGED <<typography, colors>>

\* Lines 40-58: the report is assembled from the three sections and the page
\* metadata and published; a failure here (metaThrows: reading the location,
\* the title or the clock throws) goes to the outer handler.
Assemble ==
  /\ enginePc = "assemble"
  /\ enginePc' = "idle"
  /\ \E metaThrows \in {NoThrow} \cup Messages :
       IF metaThrows = NoThrow
         THEN /\ SITE_INFO' = FinalWrite(SITE_INFO,
                                SiteInfo(typography, colors, technologies, now))
              /\ uncaught' = uncaught
              /\ outerThrown' = outerThrown
         ELSE /\ OuterThrow(metaThrows)
              /\ outerThrown' = metaThrows
  /\ UNCHANGED <<invoker, typography, colors, technologies, analyzerRuns,
                 analyzerThrew, invocations, now, pageVars, pureVars, popupVars>>

-----------------------------------------------------------------------------
(* The popup: the DOMContentLoaded handler of popup.js                     *)

Loading == [kind |-> "loading"]
\* function showError(message)
showError(message) == [kind |-> "error", message |-> message]
\* renderSiteInfo(data)
renderSiteInfo(data) == [kind |-> "report", data |-> data]

Step(name, value) == [step |-> name, value |-> value]

\* func: () => window.__SITE_INFO__ || null
ReadSlot(slot) == IF Truthy(slot) THEN slot ELSE Null

\* if (existingResults && existingResults[0]?.result): the first read found data
\* (NeverExisting: the handler without this test, which always injects.)
NeverExisting(result) == FALSE
HasExisting(result) == Truthy(result)

\* The popup is opened: the handler starts and shows the spinner.
PopupOpen ==
  /\ popupPc = "closed"
  /\ sessions < MaxSessions
  /\ sessions' = sessions + 1
  /\ popupPc' = "query"
  /\ popupView' = Loading
  /\ popupLog' = <<>>
  /\ UNCHANGED <<engineVars, pageVars, pureVars>>

\* The popup is closed; its pending timer dies with it.
PopupClose ==
  /\ popupPc # "closed"
  /\ popupPc' = "closed"
  /\ UNCHANGED <<popupView, popupLog, sessions, engineVars, pageVars, pureVars>>

\* const tabs = await chrome.tabs.query(...); if (!tabId) { showError; return }
PopupQueryTabs ==
  /\ popupPc = "query"
  /\ \E tabFound \in BOOLEAN :
       IF tabFound
         THEN popupPc' = "read1" /\ popupView' = popupView
         ELSE popupPc' = "done" /\ popupView' = showError("No active tab found")
  /\ UNCHANGED <<popupLog, sessions, engineVars, pageVars, pureVars>>

\* Lines 23-34: the first read of the slot.  It runs as a task of its own in the
\* page, so never in the middle of the content script (enginePc = "idle").
PopupFirstRead ==
  /\ popupPc = "read1"
  /\ enginePc = "idle"
  /\ \E thrown \in {NoThrow} \cup Messages :
       IF thrown # NoThrow
         THEN /\ popupPc' = "done"
              /\ popupView' = showError("Error: " \o thrown)
              /\ popupLog' = popupLog
         ELSE LET result == ReadSlot(SITE_INFO) IN
              /\ popupLog' = Append(popupLog, Step("read1", result))
              /\ IF HasExisting(result)
                   THEN popupPc' = "done" /\ popupView' = renderSiteInfo(result)
                   ELSE popupPc' = "inject" /\ popupView' = popupView
  /\ UNCHANGED <<sessions, engineVars, pageVars, pureVars>>

\* Lines 37-42: await chrome.scripting.executeScript({ files: ['content.js'] }).
\* The request is made; the script has not started yet.
PopupInject ==
  /\ popupPc = "inject"
  /\ \E thrown \in {NoThrow} \cup Messages :
       IF thrown # NoThrow
         THEN /\ popupPc' = "done"
              /\ popupView' = showError("Failed to inject content script: " \o thrown)
              /\ popupLog' = popupLog
         ELSE /\ popupPc' = "injecting"
              /\ popupView' = popupView
              /\ popupLog' = Append(popupLog, Step("inject", Null))
  /\ UNCHANGED <<sessions, engineVars, pageVars, pureVars>>

\* The injected content script starts in the page.
InjectedScriptRuns ==
  /\ popupPc = "injecting"
  /\ ContentScriptEntry("popup")
  /\ popupPc' = "running"
  /\ popupLog' = Append(popupLog, Step("run", Null))
  /\ UNCHANGED <<popupView, sessions, pageVars, pureVars>>

\* The injected script has returned: the await resumes and the popup arms
\* setTimeout(..., 1000).
PopupInjected ==
  /\ popupPc = "running"
  /\ enginePc = "idle"
  /\ popupPc' = "timer"
  /\ popupLog' = Append(popupLog, Step("injected", Null))
  /\ UNCHANGED <<popupView, sessions, engineVars, pageVars, pureVars>>

\* Lines 45-69: the timer fires and the popup reads the slot a second time.
PopupTimer ==
  /\ popupPc = "timer"
  /\ enginePc = "idle"
  /\ popupPc' = "done"
  /\ \E thrown \in {NoThrow} \cup Messages :
       IF thrown # NoThrow
         THEN /\ popupView' = showError("Script execution error: " \o thrown)
              /\ popupLog' = popupLog
         ELSE LET data == ReadSlot(SITE_INFO) IN
              /\ popupLog' = Append(popupLog, Step("read2", data))
              /\ popupView' =
                   IF ~Truthy(data)
                     THEN showError("Failed to extract site information. Try refreshing the page.")
                   ELSE IF HasField(data, "error") /\ data.error # ""
                     THEN showError("Analysis error: " \o data.error)
                   ELSE renderSiteInfo(data)
  /\ UNCHANGED <<sessions, engineVars, pageVars, pureVars>>

-----------------------------------------------------------------------------
(* The pure analyzers as operations of their own                           *)

\* getColors is applied to the page: the traversal, then the palette built
\* from what it sampled (BuildPalette(SampleColors(dom)) is getColors(dom)).
AnalyzeColors ==
  /\ palette = Undefined
  /\ LET s == SampleColors(dom) IN
       /\ sampled' = s
       /\ colorsRaised' = Raises(s)
       /\ palette' = BuildPalette(s)
  /\ UNCHANGED <<tech, typo, evaluated, engineVars, pageVars, popupVars>>

\* detectTechnologies is applied to the page.
AnalyzeTechnologies ==
  /\ tech = Undefined
  /\ LET scan == detectTechnologies(env) IN
       /\ tech' = [report |-> scan.tech, threw |-> scan.threw]
       /\ evaluated' = scan.evaluated
  /\ UNCHANGED <<sampled, palette, colorsRaised, typo, engineVars, pageVars, popupVars>>

\* getTypography is applied to the page, inside the wrapper of lines 16-22.
AnalyzeTypography ==
  /\ typo = Undefined
  /\ typo' = IF TypographyRaises(dom, body)
               THEN Section("typography", TypeError, Undefined)
               ELSE Section("typography", NoThrow, getTypography(dom, body))
  /\ UNCHANGED <<sampled, palette, colorsRaised, tech, evaluated, engineVars,
                 pageVars, popupVars>>

-----------------------------------------------------------------------------
(* Pages                                                                   *)

DefaultStyle == Style("Arial, sans-serif", "16px")

Element(tagName, cursor, classList, backgroundColor, color, clientWidth, textLength) ==
  [tagName |-> tagName, cursor |-> cursor, classList |-> classList,
   backgroundColor |-> backgroundColor, color |-> color,
   clientWidth |-> clientWidth, clientHeight |-> 10, textLength |-> textLength,
   style |-> DefaultStyle]

\* Plain boxes of every colour: small and without text, small with text, large
\* with text.
Footprints == {<<5, 0>>, <<5, 3>>, <<10, 3>>}
WeightElements ==
  {Element("DIV", "auto", {}, bg, fg, size[1], size[2]) :
     bg \in {Clear, Red, RedHalf, RedClear, Unparsed},
     fg \in {Blue, Clear, RedHalf, NoColor},
     size \in Footprints}

\* One element for each way of being interactive, and a plain one.
Shapes == {
  [tagName |-> "DIV",    cursor |-> "auto",    classList |-> {}],
  [tagName |-> "BUTTON", cursor |-> "auto",    classList |-> {}],
  [tagName |-> "A",      cursor |-> "auto",    classList |-> {}],
  [tagName |-> "DIV",    cursor |-> "pointer", classList |-> {}],
  [tagName |-> "DIV",    cursor |-> "auto",    classList |-> {"btn"}],
  [tagName |-> "DIV",    cursor |-> "auto",    classList |-> {"button"}] }
RoleElements ==
  {Element(sh.tagName, sh.cursor, sh.classList, bg, fg, 10, 3) :
     sh \in Shapes, bg \in {Clear, Red, Blue}, fg \in {Blue, Clear}}

SeqsUpTo(S, n) == UNION {[1..k -> S] : k \in 0..n}
Pages == SeqsUpTo(WeightElements, MaxElements) \cup SeqsUpTo(RoleElements, MaxElements)

\* Pages for the accent and link roles: every shape with one of two opaque
\* backgrounds, the canonical transparent one or an alpha-zero one and one of
\* two opaque text colours; anchors and plain boxes with a transparent text
\* colour; and large plain boxes and buttons that outweigh the others.
AccentElements ==
  {Element(sh.tagName, sh.cursor, sh.classList, bg, fg, 10, 3) :
     sh \in Shapes, bg \in {Clear, Red, Blue, RedClear}, fg \in {Blue, Red}}
    \cup {Element(tag, "auto", {}, bg, Clear, 10, 3) :
            tag \in {"A", "DIV"}, bg \in {Clear, Red, Blue, RedClear}}
    \cup {Element(tag, "auto", {}, bg, Blue, 50, 9) :
            tag \in {"BUTTON", "DIV"}, bg \in {Red, Blue}}
RolePages == SeqsUpTo(AccentElements, MaxElements)

\* What the rules' predicates do: at most k of them are not plainly falsy.
AllFalsy == [l \in Labels |-> Falsy_]
RECURSIVE EnvsUpTo(_)
EnvsUpTo(k) ==
  IF k = 0 THEN {AllFalsy}
  ELSE LET fewer == EnvsUpTo(k - 1) IN
       fewer \cup {[e EXCEPT ![l] = o] : e \in fewer, l \in Labels,
                                          o \in {Truthy_, Throws_}}
Envs == EnvsUpTo(MaxSignals)

\* Pages for getTypography: headings of several levels and sizes, paragraphs
\* of two styles, and a run of up to MaxParagraphs further paragraphs.
TypoElement(tagName, style) ==
  [Element(tagName, "auto", {}, Clear, Blue, 10, 3) EXCEPT !.style = style]
H1Sizes   == {"16px", "20px", "24px", "24.8px", "28.8px", "0px", ""}
BodySizes == {"16px", "20px", "0px", ""}
ParagraphStyles == <<Style("Georgia", "16px"), Style("\"Helvetica Neue\", Arial", "20px")>>
TypoElements ==
  {TypoElement("H1", Style("Arial, sans-serif", size)) : size \in H1Sizes}
    \cup {TypoElement("H2", Style("Georgia", "24px")),
          TypoElement("H6", DefaultStyle),
          TypoElement("DIV", DefaultStyle)}
    \cup {TypoElement("P", ParagraphStyles[k]) : k \in 1..2}
ParagraphRun(n, first) ==
  [i \in 1..n |-> TypoElement("P", ParagraphStyles[((i + first) % 2) + 1])]
TypoPages ==
  {head \o ParagraphRun(n, first) :
     head \in SeqsUpTo(TypoElements, MaxElements),
     n \in 0..MaxParagraphs, first \in 0..1}
TypoBodies == {Style("Arial, sans-serif", size) : size \in BodySizes} \cup {NoBody}

\* Pages for the palette: n boxes of pairwise different grey backgrounds whose
\* text colours are greys too (all the same, or stepping through the greys),
\* followed by up to MaxRepeats boxes that repeat the first or the last grey.
Swatch(bg, fg) == Element("DIV", "auto", {}, Gray(bg), Gray(fg), 10, 3)
SwatchRun(n, step) ==
  [i \in 1..n |-> Swatch(i, ((i * step) % MaxSwatches) + 1)]
RepeatElements == {Swatch(bg, fg) : bg \in {1, MaxSwatches}, fg \in {1, MaxSwatches}}
SwatchPages ==
  {SwatchRun(n, step) \o tail :
     n \in 0..MaxSwatches, step \in {0, 1, 3},
     tail \in SeqsUpTo(RepeatElements, MaxRepeats)}

\* The pages the content script and the popup are run on.
SamplePage == <<
  Element("DIV", "auto", {}, Red, Blue, 10, 3),
  Element("A", "auto", {}, Clear, RedHalf, 5, 3) >>
SampleEnv == [AllFalsy EXCEPT !["React"] = Truthy_, !["Netlify"] = Truthy_,
                              !["Lodash"] = Throws_]
EnginePages == {<<>>, SamplePage}
EngineEnvs  == {AllFalsy, SampleEnv}

-----------------------------------------------------------------------------
(* Specifications                                                          *)

EngineInit ==
  /\ SITE_INFO = Undefined
  /\ enginePc = "idle"
  /\ invoker = "page"
  /\ typography = Undefined
  /\ colors = Undefined
  /\ technologies = Undefined
  /\ analyzerRuns = [a \in Analyzers |-> 0]
  /\ analyzerThrew = [a \in Analyzers |-> NoThrow]
  /\ outerThrown = NoThrow
  /\ invocations = 0
  /\ uncaught = 0
  /\ now = 0

PopupInit ==
  /\ popupPc = "closed"
  /\ popupView = [kind |-> "none"]
  /\ popupLog = <<>>
  /\ sessions = 0

PureInit ==
  /\ sampled = EmptySample
  /\ palette = Undefined
  /\ colorsRaised = FALSE
  /\ tech = Undefined
  /\ typo = Undefined
  /\ evaluated = <<>>

\* The content script and the popup on one page.
Init ==
  /\ EngineInit /\ PopupInit /\ PureInit
  /\ dom \in EnginePages
  /\ body = DefaultStyle
  /\ env \in EngineEnvs

Next ==
  \/ PageRunsContentScript
  \/ RunTypography
  \/ RunColors
  \/ RunTechnologies
  \/ Assemble
  \/ PopupOpen
  \/ PopupClose
  \/ PopupQueryTabs
  \/ PopupFirstRead
  \/ PopupInject
  \/ InjectedScriptRuns
  \/ PopupInjected
  \/ PopupTimer

Spec == Init /\ [][Next]_vars

\* getColors on every page of the bounds.
InitColors ==
  /\ EngineInit /\ PopupInit /\ PureInit
  /\ dom \in Pages
  /\ body = DefaultStyle
  /\ env = AllFalsy

NextColors == AnalyzeColors

SpecColors == InitColors /\ [][NextColors]_vars

\* detectTechnologies on every outcome of the rules within the bounds.
InitTech ==
  /\ EngineInit /\ PopupInit /\ PureInit
  /\ dom = <<>>
  /\ body = DefaultStyle
  /\ env \in Envs

NextTech == AnalyzeTechnologies

SpecTech == InitTech /\ [][NextTech]_vars

\* getColors on pages of interactive elements.
InitRoles ==
  /\ EngineInit /\ PopupInit /\ PureInit
  /\ dom \in RolePages
  /\ body = DefaultStyle
  /\ env = AllFalsy

NextRoles == AnalyzeColors

SpecRoles == InitRoles /\ [][NextRoles]_vars

\* getColors on pages of many colours.
InitPalette ==
  /\ EngineInit /\ PopupInit /\ PureInit
  /\ dom \in SwatchPages
  /\ body = DefaultStyle
  /\ env = AllFalsy

NextPalette == AnalyzeColors

SpecPalette == InitPalette /\ [][NextPalette]_vars

\* getTypography on every page and body style of the bounds.
InitTypography ==
  /\ EngineInit /\ PopupInit /\ PureInit
  /\ dom \in TypoPages
  /\ body \in TypoBodies
  /\ env = AllFalsy

NextTypography == AnalyzeTypography

SpecTypography == InitTypography /\ [][NextTypography]_vars

-----------------------------------------------------------------------------
(* Claims about the content script and the popup (specification Spec)      *)

ReportFields == {"typography", "colors", "technologies", "url", "title", "timestamp"}
IsReport(v) == DOMAIN v = ReportFields
IsErrorResult(v) == HasField(v, "error")
IsEngineError(v) == DOMAIN v = {"error", "timestamp"}

\* The content script is not running and the slot holds what it published.
Published == enginePc = "idle" /\ Truthy(SITE_INFO)

\* What each analyzer returns on the page of the model when it does not throw.
NormalResult(analyzer) ==
  CASE analyzer = "typography"   -> getTypography(dom, body)
    [] analyzer = "colors"       -> getColors(dom)
    [] analyzer = "technologies" -> detectTechnologies(env).tech

\* C1: once an execution of the content script has published a result, every
\* later step (every later execution included) leaves the slot holding exactly
\* that result and runs no analyzer; no analyzer ever runs more than once in a
\* page context.
C1_RunOnce ==
  [][ /\ Published => (SITE_INFO' = SITE_INFO /\ analyzerRuns' = analyzerRuns)
      /\ \A a \in Analyzers : analyzerRuns'[a] <= 1 ]_vars

\* C1 witness: a second execution has come and gone after a publication.
C1_Witness ==
  /\ invocations >= 2
  /\ Published
  /\ \A a \in Analyzers : analyzerRuns[a] = 1

\* C2: whatever the popup reads from the slot is absent (null), a complete
\* report, or a result with an error field, never the { status: 'analyzing' }
\* sentinel; and between executions the slot is absent exactly when the content
\* script has never been executed.
C2_ReadsSeeResultsOnly ==
  /\ \A i \in 1..Len(popupLog) :
       popupLog[i].step \in {"read1", "read2"} =>
         LET v == popupLog[i].value IN
           v = Null \/ IsReport(v) \/ IsErrorResult(v)
  /\ enginePc = "idle" =>
       /\ SITE_INFO # Sentinel
       /\ (SITE_INFO = Undefined) = (invocations = 0)

\* C2 witness: the popup read the slot before any execution and found nothing,
\* the content script then wrote the sentinel and finished, and the popup's
\* second read saw the report.
C2_Witness ==
  /\ Len(popupLog) > 1
  /\ popupLog[1] = Step("read1", Null)
  /\ popupLog[Len(popupLog)].step = "read2"
  /\ IsReport(popupLog[Len(popupLog)].value)

\* C3: when an execution ends without a failure outside the analyzers'
\* wrappers, a report is published in which the section of every analyzer that
\* threw is { error: <its message> } and nothing else, the section of every
\* analyzer that did not throw is its normal result, all three analyzers have
\* run, and url, title and timestamp are present.
C3_AnalyzerFailureIsolated ==
  (enginePc = "idle" /\ invocations > 0 /\ outerThrown = NoThrow) =>
    /\ IsReport(SITE_INFO)
    /\ SITE_INFO.url = PageUrl
    /\ SITE_INFO.title = PageTitle
    /\ SITE_INFO.timestamp \in 1..now
    /\ \A a \in Analyzers :
         /\ analyzerRuns[a] = 1
         /\ analyzerThrew[a] # NoThrow => SITE_INFO[a] = [error |-> analyzerThrew[a]]
         /\ analyzerThrew[a] = NoThrow => SITE_INFO[a] = NormalResult(a)

\* C3 witness: exactly one analyzer threw and the report is published.
C3_Witness ==
  /\ enginePc = "idle"
  /\ IsReport(SITE_INFO)
  /\ analyzerThrew["colors"] # NoThrow
  /\ analyzerThrew["typography"] = NoThrow
  /\ analyzerThrew["technologies"] = NoThrow
  /\ dom # <<>>

\* C4: when an execution fails outside the analyzers' wrappers, the slot holds
\* { error: <message>, timestamp } and no other field, and no exception ever
\* leaves the content script.
C4_EngineFailureContained ==
  /\ uncaught = 0
  /\ (enginePc = "idle" /\ outerThrown # NoThrow) =>
       /\ IsEngineError(SITE_INFO)
       /\ SITE_INFO.error = outerThrown
       /\ SITE_INFO.timestamp \in 1..now

\* C4 witness: reading the page metadata threw after all three analyzers had
\* returned normally.
C4_Witness ==
  /\ enginePc = "idle"
  /\ outerThrown # NoThrow
  /\ IsEngineError(SITE_INFO)
  /\ \A a \in Analyzers : analyzerRuns[a] = 1 /\ analyzerThrew[a] = NoThrow

\* No technology rule matches on the page.
NoRuleMatches == \A l \in Labels : env[l] # Truthy_

\* The body has no descendant elements, no rule matches, and the execution
\* published a report none of whose analyzers failed.
EmptyDocumentReported ==
  /\ Published
  /\ IsReport(SITE_INFO)
  /\ dom = <<>>
  /\ NoRuleMatches
  /\ \A a \in Analyzers : analyzerThrew[a] = NoThrow

\* C12: for a document whose body has no descendant elements and on which no
\* technology rule matches, the report has headings = {}, paragraphs = [],
\* palette.all = [], the four roles null, the four technology arrays empty and
\* hosting = null.
C12_EmptyDocument ==
  EmptyDocumentReported =>
    /\ DOMAIN SITE_INFO.typography.headings = {}
    /\ SITE_INFO.typography.paragraphs = <<>>
    /\ SITE_INFO.colors.all = <<>>
    /\ \A role \in {"background", "text", "accent", "link"} :
         SITE_INFO.colors[role] = Null
    /\ \A category \in {"frameworks", "libraries", "analytics", "tools"} :
         SITE_INFO.technologies[category] = <<>>
    /\ SITE_INFO.technologies.hosting = NullString

\* C12 witness: the report of such a document is published; its typography
\* section still carries the body's style.
C12_Witness ==
  /\ EmptyDocumentReported
  /\ SITE_INFO.typography.body = StyleSample(body)
  /\ SITE_INFO.typography.typeScale = NullString

\* The popup's handler has finished after reading the slot: the last step of
\* the session is the named read.
FinishedOn(read) ==
  /\ popupPc = "done"
  /\ popupLog # <<>>
  /\ popupLog[Len(popupLog)].step = read
LastRead == popupLog[Len(popupLog)].value

\* What the popup shows for a retrieved value, by the three outcomes.
Distinguished(value) ==
  /\ value = Null => popupView.kind = "error"
  /\ (value # Null /\ IsErrorResult(value)) => popupView.kind = "error"
  /\ popupView.kind = "report" =>
       (value # Null /\ ~IsErrorResult(value) /\ popupView.data = value)

\* C13 as stated: after either retrieval of the slot (the existing-result
\* check and the read after injection) the popup shows a message when there is
\* no result, an error message when the result has a top-level error field,
\* and a rendered report only for a result without a top-level error.
C13_PopupDistinguishesOutcomes ==
  \A read \in {"read1", "read2"} : FinishedOn(read) => Distinguished(LastRead)

\* The part of C13 the code satisfies: the retrieval after injection.
SecondReadDistinguishes ==
  FinishedOn("read2") => Distinguished(LastRead)

\* The session in which C13 fails: the existing-result check found an
\* engine-level error result and the popup rendered it as a report.
ErrorResultRendered ==
  /\ FinishedOn("read1")
  /\ IsEngineError(LastRead)
  /\ popupView = renderSiteInfo(LastRead)

\* The steps of the current popup session, and the steps of a whole one.
SessionSteps == [i \in 1..Len(popupLog) |-> popupLog[i].step]
FullSession  == <<"read1", "inject", "run", "injected", "read2">>
IsPrefix(a, b) == Len(a) <= Len(b) /\ \A i \in 1..Len(a) : a[i] = b[i]

\* A step in which the popup's injection makes the content script execute.
PopupExecutesEngine == invocations' # invocations /\ invoker' = "popup"

\* C14: in every popup session the steps come in the order first read,
\* injection request, execution of the content script, completion of the
\* injection (the delay is armed), second read (the delay has elapsed), each at
\* most once; nothing follows the first read unless it found no result; and
\* the popup makes the content script execute only as the "run" step of that
\* order, so not at all when the first read found a result.
C14_SessionOrder ==
  /\ [](/\ IsPrefix(SessionSteps, FullSession)
        /\ Len(popupLog) >= 2 => popupLog[1].value = Null)
  /\ [][PopupExecutesEngine => popupLog' = Append(popupLog, Step("run", Null))]_vars

\* C14 witness: a second session whose first read found the result of the
\* first session's injection and which went no further.
C14_Witness ==
  /\ sessions = 2
  /\ popupPc = "done"
  /\ SessionSteps = <<"read1">>
  /\ popupLog[1].value # Null
  /\ invoker = "popup"
  /\ invocations = 1

\* The content script is not running and the slot holds an engine-level
\* error result.
EngineErrorPublished == enginePc = "idle" /\ IsEngineError(SITE_INFO)

\* C21: once the slot holds an engine-level error result { error, timestamp },
\* every later step (popup openings and executions of the content script
\* included) leaves that same result in the slot and runs no analyzer, so the
\* slot never comes to hold a report.
C21_EngineErrorIsFinal ==
  [][ EngineErrorPublished =>
        /\ SITE_INFO' = SITE_INFO
        /\ analyzerRuns' = analyzerRuns
        /\ enginePc' = "idle"
        /\ ~IsReport(SITE_INFO') ]_vars

\* C21 witness: after the error result was published the content script was
\* executed again and a popup session read the slot, which still holds the
\* error result of the first execution.
C21_Witness ==
  /\ EngineErrorPublished
  /\ SITE_INFO.error = outerThrown
  /\ SITE_INFO.timestamp < now
  /\ invocations >= 2
  /\ popupLog # <<>>
  /\ popupLog[1] = Step("read1", SITE_INFO)

-----------------------------------------------------------------------------
(* Claims about detectTechnologies (specification SpecTech)                *)

Range(seq) == {seq[i] : i \in 1..Len(seq)}
TechDone == tech # Undefined

\* The rule's label is in the report, in the rule's category.
Recorded(report, rule) ==
  IF rule.category = "hosting"
    THEN report.hosting = rule.label
    ELSE rule.label \in Range(report[rule.category])

\* The rule's predicate was called and threw.
Threw(i) ==
  /\ RuleTable[i].label \in Range(evaluated)
  /\ Predicate(RuleTable[i], env) = Throws_

\* The hosting labels in the order of the claim.
HostingOrder ==
  <<"Vercel", "Netlify", "GitHub Pages", "WordPress", "Shopify", "Wix", "Squarespace">>
HostingMatches(k) == env[HostingOrder[k]] = Truthy_
NoEarlierHostingMatch(k) == \A j \in 1..(k - 1) : ~HostingMatches(j)

\* Where the source places the rule: a sub-rule is reached only when its
\* parent matched, a hosting rule only while no earlier hosting rule matched.
Reached(rule) ==
  /\ rule.parent # "" => env[rule.parent] = Truthy_
  /\ rule.category = "hosting" =>
       \A k \in 1..Len(HostingOrder) :
         HostingOrder[k] = rule.label => NoEarlierHostingMatch(k)

\* C5 as stated: when a rule's predicate throws, the rule is not detected,
\* detectTechnologies does not throw, and every rule later in the table is
\* evaluated and, when it matches, recorded in its category.
C5_EveryLaterRuleEvaluated ==
  TechDone =>
    /\ ~tech.threw
    /\ \A i \in 1..NumRules : Threw(i) =>
         /\ ~Recorded(tech.report, RuleTable[i])
         /\ \A j \in (i + 1)..NumRules :
              /\ RuleTable[j].label \in Range(evaluated)
              /\ Predicate(RuleTable[j], env) = Truthy_ =>
                   Recorded(tech.report, RuleTable[j])

\* C5 as amended: when a rule's predicate throws, the rule is not detected,
\* detectTechnologies does not throw, and every later rule is evaluated exactly
\* when the table reaches it (a sub-rule only if its parent matched, a hosting
\* rule only if no earlier hosting rule matched); every later rule that is
\* evaluated and matches is recorded in its category.
C5_LaterRulesUnaffected ==
  TechDone =>
    /\ ~tech.threw
    /\ \A i \in 1..NumRules : Threw(i) =>
         /\ ~Recorded(tech.report, RuleTable[i])
         /\ \A j \in (i + 1)..NumRules :
              /\ (RuleTable[j].label \in Range(evaluated)) = Reached(RuleTable[j])
              /\ (Reached(RuleTable[j]) /\ Predicate(RuleTable[j], env) = Truthy_) =>
                   Recorded(tech.report, RuleTable[j])

\* C5 witness: a rule threw and a later rule matched and was recorded.
C5_Witness ==
  /\ TechDone
  /\ \E i \in 1..NumRules : \E j \in (i + 1)..NumRules :
       /\ Threw(i)
       /\ Predicate(RuleTable[j], env) = Truthy_
       /\ Recorded(tech.report, RuleTable[j])

\* C6: hosting is null or one label, the label of the first hosting rule in
\* table order whose predicate is truthy; the hosting rules evaluated are
\* those up to and including that first match; hosting is null exactly when no
\* hosting rule matches.
C6_HostingFirstMatch ==
  TechDone =>
    /\ tech.report.hosting \in Range(HostingOrder) \cup {NullString}
    /\ \A k \in 1..Len(HostingOrder) :
         /\ (tech.report.hosting = HostingOrder[k]) =
              (HostingMatches(k) /\ NoEarlierHostingMatch(k))
         /\ (HostingOrder[k] \in Range(evaluated)) = NoEarlierHostingMatch(k)
    /\ (tech.report.hosting = NullString) =
         (\A k \in 1..Len(HostingOrder) : ~HostingMatches(k))

\* C6 witness: two hosting rules match and the earlier one is reported.
C6_Witness ==
  /\ TechDone
  /\ \E k \in 1..Len(HostingOrder) : \E m \in (k + 1)..Len(HostingOrder) :
       /\ HostingMatches(k)
       /\ HostingMatches(m)
       /\ tech.report.hosting = HostingOrder[k]
       /\ HostingOrder[m] \notin Range(evaluated)

-----------------------------------------------------------------------------
(* Claims about getColors (specification SpecColors)                       *)

ColorsDone == palette # Undefined

\* An entry of palette.all holds the raw colour.
InPalette(raw) ==
  \E i \in 1..Len(palette.all) :
    palette.all[i].originalColor = raw \/ palette.all[i].color = raw

\* How often the traversal counts the raw colour: once for every element whose
\* background it is, once for every element whose text colour it is.
Occurrences(raw) ==
  Cardinality({i \in 1..Len(dom) : dom[i].backgroundColor = raw})
    + Cardinality({i \in 1..Len(dom) : dom[i].color = raw})

\* The string is not of the form rgb(r, g, b) or rgba(r, g, b, a).
CannotParse(raw) == rgbaMatch(raw) = Null

\* The colour is transparent: the keyword, the canonical rgba(0, 0, 0, 0), or
\* any rgba value with alpha 0.
IsTransparent(raw) ==
  \/ raw = Keyword
  \/ raw = Clear
  \/ (rgbaMatch(raw) # Null /\ rgbaMatch(raw).a = "0")

\* C7: no two entries of palette.all have the same color value.
C7_PaletteDistinct ==
  ColorsDone =>
    \A i \in 1..Len(palette.all) : \A j \in 1..Len(palette.all) :
      i # j => palette.all[i].color # palette.all[j].color

\* C7 witness: two different raw strings of the page normalize to the same hex
\* and the palette has one entry for it.
C7_Witness ==
  /\ ColorsDone
  /\ MapHas(sampled.colorMap, Red)
  /\ MapHas(sampled.colorMap, RedHalf)
  /\ \E i \in 1..Len(palette.all) : palette.all[i].color = "#ff0000"

\* C8 as stated: a background colour string that cannot be parsed as
\* rgb()/rgba() does not make getColors raise and appears in no entry of
\* palette.all.
C8_UnparsedSkipped ==
  ColorsDone =>
    /\ ~colorsRaised
    /\ \A i \in 1..Len(dom) :
         CannotParse(dom[i].backgroundColor) => ~InPalette(dom[i].backgroundColor)

\* C8 as amended: a background colour string that cannot be parsed as
\* rgb()/rgba() does not make getColors raise; unless it is the empty string or
\* the keyword transparent (which the sampler rejects) it is kept under its raw
\* string: palette.all has an entry whose color and originalColor are both the
\* raw string and whose count is its number of occurrences, unless the limit of
\* 12 entries has cut the palette.
C8_UnparsedPassedThrough ==
  ColorsDone =>
    /\ ~colorsRaised
    /\ \A i \in 1..Len(dom) :
         LET raw == dom[i].backgroundColor IN
         CannotParse(raw) =>
           IF raw = NoColor \/ raw = Keyword
             THEN ~InPalette(raw)
             ELSE \/ Len(palette.all) = PaletteLimit
                  \/ \E k \in 1..Len(palette.all) :
                       palette.all[k] = [color |-> raw, originalColor |-> raw,
                                         count |-> Occurrences(raw)]

\* C8 witness: an element has the unparseable background and the palette lists it.
C8_Witness ==
  /\ ColorsDone
  /\ \E i \in 1..Len(dom) : dom[i].backgroundColor = Unparsed
  /\ InPalette(Unparsed)
  /\ Len(palette.all) >= 2

\* C9 as stated: no transparent or alpha-zero colour enters the background
\* weight map, the text weight map or the occurrence count map, and none is
\* reported as a role or in palette.all.
C9_TransparentNeverRecorded ==
  ColorsDone =>
    /\ \A raw \in MapKeys(sampled.backgroundColors) \cup MapKeys(sampled.textColors)
                    \cup MapKeys(sampled.colorMap) : ~IsTransparent(raw)
    /\ \A role \in {"background", "text", "accent", "link"} :
         palette[role] # Null => ~IsTransparent(palette[role].originalColor)
    /\ \A i \in 1..Len(palette.all) : ~IsTransparent(palette.all[i].originalColor)

\* The weight map behind a role.
WeightMap(role) ==
  IF role = "background" THEN sampled.backgroundColors ELSE sampled.textColors

\* Part of C10 that the code satisfies: each of the two roles is null exactly
\* when its weight map is empty, and otherwise names a raw colour of greatest
\* accumulated weight, the first such in insertion order.
HeaviestRawSelected ==
  ColorsDone =>
    \A role \in {"background", "text"} :
      /\ (palette[role] = Null) = (WeightMap(role) = <<>>)
      /\ palette[role] # Null =>
           \E i \in 1..Len(WeightMap(role)) :
             /\ WeightMap(role)[i].key = palette[role].originalColor
             /\ \A j \in 1..Len(WeightMap(role)) :
                  /\ WeightMap(role)[j].value <= WeightMap(role)[i].value
                  /\ j < i => WeightMap(role)[j].value < WeightMap(role)[i].value
             /\ palette[role].color = rgbaToHex(WeightMap(role)[i].key)

\* C10 as stated: the background and text roles are null exactly when their
\* weight map is empty; otherwise originalColor is a raw colour of greatest
\* accumulated weight in the map and color is that colour's canonical hex.
C10_RoleIsHeaviest ==
  ColorsDone =>
    \A role \in {"background", "text"} :
      /\ (palette[role] = Null) = (WeightMap(role) = <<>>)
      /\ palette[role] # Null =>
           /\ MapHas(WeightMap(role), palette[role].originalColor)
           /\ \A raw \in MapKeys(WeightMap(role)) :
                MapGetOr0(WeightMap(role), raw)
                  <= MapGetOr0(WeightMap(role), palette[role].originalColor)
           /\ palette[role].color # NullString
           /\ palette[role].color = rgbaToHex(palette[role].originalColor)

-----------------------------------------------------------------------------
(* Claims about the palette (specifications SpecPalette and SpecColors)    *)

\* The traversal meets element i's background as encounter 2i - 1 and its
\* text colour as encounter 2i.
Encounters(hex) ==
  {2 * i - 1 : i \in {k \in 1..Len(dom) : rgbaToHex(dom[k].backgroundColor) = hex}}
    \cup {2 * i : i \in {k \in 1..Len(dom) : rgbaToHex(dom[k].color) = hex}}
FirstSeen(hex) ==
  CHOOSE e \in Encounters(hex) : \A f \in Encounters(hex) : e <= f

\* The raw colours of the page, and the canonical hex values among them.
RawColors ==
  {dom[i].backgroundColor : i \in 1..Len(dom)} \cup {dom[i].color : i \in 1..Len(dom)}
Hexes == {rgbaToHex(raw) : raw \in RawColors} \ {NullString}

\* The count of a hex: the highest occurrence count of a raw colour with it.
RawsOf(hex) == {raw \in RawColors : rgbaToHex(raw) = hex}
HexCount(hex) ==
  CHOOSE c \in {Occurrences(raw) : raw \in RawsOf(hex)} :
    \A raw \in RawsOf(hex) : Occurrences(raw) <= c

\* The order of the palette: higher count first, first encountered first
\* among equal counts.  (A strict total order on the hex values of a page.)
Before(a, b) ==
  LET countA == HexCount(a)
      countB == HexCount(b)
  IN \/ countA > countB
     \/ countA = countB /\ FirstSeen(a) < FirstSeen(b)

PaletteHexes == {palette.all[i].color : i \in 1..Len(palette.all)}

\* C16: palette.all has at most 12 entries (all distinct hex values when there
\* are no more than 12), counts do not increase from first to last, entries of
\* equal count stand in the order in which their hex was first encountered,
\* and with more than 12 distinct hex values the entries kept are the 12 that
\* come first in that order.
\* (The order being total, it is stated of each entry and its successor, and
\* of the last entry and each hex value left out.)
C16_PaletteOrderAndLimit ==
  ColorsDone =>
    /\ Len(palette.all) <= 12
    /\ Len(palette.all) = IF Cardinality(Hexes) < 12 THEN Cardinality(Hexes) ELSE 12
    /\ PaletteHexes \subseteq Hexes
    /\ \A i \in 1..Len(palette.all) : palette.all[i].count = HexCount(palette.all[i].color)
    /\ \A i \in 1..(Len(palette.all) - 1) :
         /\ palette.all[i].count >= palette.all[i + 1].count
         /\ Before(palette.all[i].color, palette.all[i + 1].color)
    /\ \A hex \in Hexes \ PaletteHexes :
         Before(palette.all[Len(palette.all)].color, hex)

\* C16 witness: more than 12 distinct hex values of at least two different
\* counts, and a hex left out that has the same count as the last entry kept.
C16_Witness ==
  /\ ColorsDone
  /\ Cardinality(Hexes) > 12
  /\ Len(palette.all) = 12
  /\ palette.all[1].count > palette.all[12].count
  /\ \E hex \in Hexes \ PaletteHexes : HexCount(hex) = palette.all[12].count
  /\ \E i \in 1..11 : palette.all[i].count = palette.all[i + 1].count

\* The encounter at which the traversal first meets the raw colour.
RawEncounters(raw) ==
  {2 * i - 1 : i \in {k \in 1..Len(dom) : dom[k].backgroundColor = raw}}
    \cup {2 * i : i \in {k \in 1..Len(dom) : dom[k].color = raw}}
FirstSeenRaw(raw) ==
  CHOOSE e \in RawEncounters(raw) : \A f \in RawEncounters(raw) : e <= f

\* The sum of the occurrence counts of the raw colours of a hex.
RECURSIVE SumOccurrences(_)
SumOccurrences(raws) ==
  IF raws = {} THEN 0
  ELSE LET raw == CHOOSE r \in raws : TRUE
       IN Occurrences(raw) + SumOccurrences(raws \ {raw})

\* C17: for every entry of the deduplicated map (palette.all while it holds
\* no more than 12 entries), originalColor is a raw colour of the highest
\* occurrence count among those that normalize to the entry's hex, the
\* earliest encountered of them on a tie, and count is that highest count,
\* which is less than the sum as soon as two raw colours were merged.
C17_MergeKeepsHighest ==
  (ColorsDone /\ Cardinality(Hexes) <= 12) =>
    /\ PaletteHexes = Hexes
    /\ \A i \in 1..Len(palette.all) :
         LET entry == palette.all[i]
             raws  == RawsOf(entry.color)
         IN /\ entry.originalColor \in raws
            /\ entry.count = Occurrences(entry.originalColor)
            /\ \A raw \in raws :
                 /\ Occurrences(raw) <= entry.count
                 /\ Occurrences(raw) = entry.count =>
                      FirstSeenRaw(entry.originalColor) <= FirstSeenRaw(raw)
            /\ Cardinality(raws) > 1 => entry.count < SumOccurrences(raws)

\* C17 witness: two raw colours of the same hex, the one met later being the
\* more frequent and so the one kept, with its own count.
C17_Witness ==
  /\ ColorsDone
  /\ \E i \in 1..Len(palette.all) :
       LET entry == palette.all[i] IN
       /\ entry.color = "#ff0000"
       /\ entry.originalColor = RedHalf
       /\ entry.count = 2
       /\ Red \in RawsOf(entry.color)
       /\ FirstSeenRaw(Red) < FirstSeenRaw(RedHalf)

-----------------------------------------------------------------------------
(* Claims about the accent and link roles (specification SpecRoles)        *)

\* The first element in document order with the property, 0 for none.
FirstIndex(P(_)) ==
  IF \E i \in 1..Len(dom) : P(dom[i])
    THEN CHOOSE i \in 1..Len(dom) : P(dom[i]) /\ \A j \in 1..(i - 1) : ~P(dom[j])
    ELSE 0

\* An interactive element whose background is not transparent, in the sense
\* of the claim and in the sense of the test the code makes.
OpaqueInteractive(el) ==
  IsInteractive(el) /\ el.backgroundColor # NoColor /\ ~IsTransparent(el.backgroundColor)
CountedInteractive(el) == IsInteractive(el) /\ BackgroundCounts(el.backgroundColor)
IsAnchor(el) == el.tagName = "A"

\* The role is the colour the element at index i has in the field, or null
\* when i is 0.
RoleFrom(role, i, field) ==
  IF i = 0 THEN palette[role] = Null
  ELSE /\ palette[role] # Null
       /\ palette[role].originalColor = dom[i][field]
       /\ palette[role].color = rgbaToHex(dom[i][field])

\* C18 as stated: accent is the background of the first interactive element
\* in document order whose background is not transparent, or null if there is
\* none; link is the text colour of the first anchor in document order, or
\* null if there is none.
C18_AccentAndLinkFirstEncountered ==
  ColorsDone =>
    /\ RoleFrom("accent", FirstIndex(OpaqueInteractive), "backgroundColor")
    /\ RoleFrom("link", FirstIndex(IsAnchor), "color")

\* The part of C18 the code satisfies: the same with "not transparent" read
\* as the code tests it (neither empty, nor 'rgba(0, 0, 0, 0)', nor
\* 'transparent'), whatever the weights and frequencies of the colours.
FirstCandidateSelected ==
  ColorsDone =>
    /\ RoleFrom("accent", FirstIndex(CountedInteractive), "backgroundColor")
    /\ RoleFrom("link", FirstIndex(IsAnchor), "color")

\* The page on which C18 fails: the first interactive element has an
\* alpha-zero background and an opaque one follows.
TransparentAccent ==
  /\ ColorsDone
  /\ Len(dom) = 2
  /\ dom[1].tagName = "BUTTON"
  /\ dom[1].backgroundColor = RedClear
  /\ dom[2].tagName = "BUTTON"
  /\ dom[2].backgroundColor = Blue
  /\ palette.accent = [color |-> "#ff0000", originalColor |-> RedClear]

\* A page on which the first candidate is neither the heaviest nor the most
\* frequent colour and is selected all the same.
FirstNotHeaviestSelected ==
  /\ ColorsDone
  /\ Len(dom) = 2
  /\ dom[1].tagName = "A" /\ dom[1].backgroundColor = Red /\ dom[1].color = Red
  /\ dom[2].tagName = "BUTTON" /\ dom[2].backgroundColor = Blue
  /\ dom[2].clientWidth = 50
  /\ palette.accent = [color |-> "#ff0000", originalColor |-> Red]
  /\ palette.link = [color |-> "#ff0000", originalColor |-> Red]
  /\ palette.background.color = "#0000ff"

\* C20 as stated: when at most 12 distinct hex values were sampled, every
\* non-null role has a color that is the color of some entry of palette.all.
C20_RolesInPalette ==
  (ColorsDone /\ Cardinality(Hexes) <= 12) =>
    \A role \in {"background", "text", "accent", "link"} :
      palette[role] # Null => palette[role].color \in PaletteHexes

\* The part of C20 the code satisfies: a role whose color is not null has it
\* from the palette.
HexRolesInPalette ==
  (ColorsDone /\ Cardinality(Hexes) <= 12) =>
    \A role \in {"background", "text", "accent", "link"} :
      (palette[role] # Null /\ palette[role].color # NullString) =>
        palette[role].color \in PaletteHexes

\* The page on which C20 fails: an anchor with a transparent text colour.
NullColorRole ==
  /\ ColorsDone
  /\ palette.link = [color |-> NullString, originalColor |-> Clear]
  /\ palette.text = [color |-> NullString, originalColor |-> Clear]

-----------------------------------------------------------------------------
(* Claims about getTypography (specification SpecTypography)               *)

TypoDone == typo # Undefined
\* The typography section is a TypographyReport, not { error }.
TypoReported == TypoDone /\ ~IsErrorResult(typo)

\* The elements of a tag, read off the page.
CountOf(tagName) == Cardinality({i \in 1..Len(dom) : dom[i].tagName = tagName})
FirstOf(tagName) ==
  dom[CHOOSE i \in 1..Len(dom) :
        dom[i].tagName = tagName /\ \A j \in 1..(i - 1) : dom[j].tagName # tagName]

\* The h1 sample exists and both font sizes parse, the body's to more than 0.
RatioDefined ==
  /\ CountOf("H1") > 0
  /\ parseFloat(FirstOf("H1").style.fontSize) # NaN
  /\ parseFloat(body.fontSize) # NaN
  /\ parseFloat(body.fontSize) > 0

\* round(h1Size / bodySize x 100), the ratio of the claim in hundredths: the
\* integer r with r - 1/2 <= 100 h1Size / bodySize < r + 1/2.
MaxRatio == 1000
Ratio ==
  LET h == parseFloat(FirstOf("H1").style.fontSize)
      b == parseFloat(body.fontSize)
  IN CHOOSE r \in 0..MaxRatio : (2 * r - 1) * b <= 200 * h /\ 200 * h < (2 * r + 1) * b

\* The table entries nearest to the ratio, and the distance in thousandths.
Distance(i, r) == Abs(CommonScales[i].value - 10 * r)
Nearest(r) ==
  {i \in 1..Len(CommonScales) : \A j \in 1..Len(CommonScales) : Distance(i, r) <= Distance(j, r)}

\* C11 as stated: with an h1 sample and both sizes parsed (body size > 0),
\* typeScale is the name of the table entry nearest to the rounded ratio when
\* that entry is within 0.05 of the ratio (0.05 included) and otherwise the
\* ratio printed as a number; body 16 and h1 28.8 give "1.8", body 16 and h1 20
\* give "Major Third (1.25)"; in every other case typeScale is null.
C11_TypeScaleWithinTolerance ==
  TypoReported =>
    IF RatioDefined
      THEN /\ \E i \in Nearest(Ratio) :
                typo.typeScale = IF Distance(i, Ratio) <= 50
                                   THEN CommonScales[i].name
                                   ELSE HundredthsToString(Ratio)
           /\ (FirstOf("H1").style.fontSize = "28.8px" /\ body.fontSize = "16px")
                => typo.typeScale = "1.8"
           /\ (FirstOf("H1").style.fontSize = "20px" /\ body.fontSize = "16px")
                => typo.typeScale = "Major Third (1.25)"
      ELSE typo.typeScale = NullString

\* What the code computes instead: the same with the nearest entry named only
\* when it is less than 0.05 away, because in doubles |1.5 - 1.55| exceeds 0.05.
TypeScaleStrictlyWithin ==
  TypoReported =>
    IF RatioDefined
      THEN /\ \E i \in Nearest(Ratio) :
                typo.typeScale = IF Distance(i, Ratio) < 50
                                   THEN CommonScales[i].name
                                   ELSE HundredthsToString(Ratio)
           /\ (FirstOf("H1").style.fontSize = "28.8px" /\ body.fontSize = "16px")
                => typo.typeScale = "1.8"
           /\ (FirstOf("H1").style.fontSize = "20px" /\ body.fontSize = "16px")
                => typo.typeScale = "Major Third (1.25)"
      ELSE typo.typeScale = NullString

\* The page on which C11 fails: body 16px, h1 24.8px, ratio 1.55.
TypeScaleBoundary ==
  /\ TypoReported
  /\ RatioDefined
  /\ Ratio = 155
  /\ typo.typeScale = "1.55"

\* Heading level n as a tag name and as a key of headings.
LevelTag(n) == "H" \o ToString10(n)
LevelKey(n) == "h" \o ToString10(n)
LevelsPresent == {n \in 1..6 : CountOf(LevelTag(n)) > 0}

\* The k-th element of a tag in document order.
NthOf(tagName, k) ==
  dom[CHOOSE i \in 1..Len(dom) :
        /\ dom[i].tagName = tagName
        /\ Cardinality({j \in 1..i : dom[j].tagName = tagName}) = k]

\* The five properties a sample records of an element's computed style.
SampleOf(el) ==
  [fontFamily |-> el.style.fontFamily, fontSize |-> el.style.fontSize,
   lineHeight |-> el.style.lineHeight, fontWeight |-> el.style.fontWeight,
   letterSpacing |-> el.style.letterSpacing]
WithCount(sample, n) ==
  [fontFamily |-> sample.fontFamily, fontSize |-> sample.fontSize,
   lineHeight |-> sample.lineHeight, fontWeight |-> sample.fontWeight,
   letterSpacing |-> sample.letterSpacing, count |-> n]
SampledParagraphs ==
  IF CountOf("P") < 5 THEN CountOf("P") ELSE 5

\* The headings and paragraphs of a report are those of the page.
SamplesCollected(report) ==
  /\ DOMAIN report.headings = {LevelKey(n) : n \in LevelsPresent}
  /\ \A n \in LevelsPresent :
       report.headings[LevelKey(n)] =
         WithCount(SampleOf(FirstOf(LevelTag(n))), CountOf(LevelTag(n)))
  /\ Len(report.paragraphs) = SampledParagraphs
  /\ \A k \in 1..SampledParagraphs : report.paragraphs[k] = SampleOf(NthOf("P", k))

\* A font size that has to be parsed does not parse.
ParseFails ==
  /\ CountOf("H1") > 0
  /\ \/ parseFloat(FirstOf("H1").style.fontSize) = NaN
     \/ parseFloat(body.fontSize) = NaN

\* C15 as stated: when reading or parsing one sample fails, the typography
\* section is still a TypographyReport; a body style that cannot be read
\* leaves body null, a font size that cannot be parsed leaves typeScale null,
\* and the heading and paragraph samples are collected all the same.
C15_SampleFailureDegrades ==
  TypoDone =>
    /\ ~IsErrorResult(typo)
    /\ SamplesCollected(typo)
    /\ body = NoBody => typo.body = Null
    /\ (body # NoBody /\ ParseFails) => typo.typeScale = NullString

\* The part of C15 the code satisfies: a font size that does not parse leaves
\* typeScale null and every sample in place.
ParseFailureDegrades ==
  (TypoDone /\ body # NoBody /\ ParseFails) =>
    /\ ~IsErrorResult(typo)
    /\ SamplesCollected(typo)
    /\ typo.body = StyleSample(body)
    /\ typo.typeScale = NullString

\* The page on which C15 fails: the body's style cannot be read, and the
\* section is { error } although the page has headings and paragraphs.
BodyReadAborts ==
  /\ TypoDone
  /\ body = NoBody
  /\ CountOf("H1") > 0
  /\ CountOf("P") > 0
  /\ typo = SectionError(TypeError)

\* C19: headings has an entry for level n exactly when an hn element exists;
\* the entry is the style of the first hn in document order with count the
\* number of hn elements; paragraphs is the styles of the first min(5, number
\* of p elements) paragraphs in document order.
C19_HeadingAndParagraphSamples ==
  TypoReported => SamplesCollected(typo)

\* C19 witness: two h1 elements of different sizes and more than five
\* paragraphs of alternating styles.
C19_Witness ==
  /\ TypoReported
  /\ CountOf("H1") = 2
  /\ NthOf("H1", 1).style # NthOf("H1", 2).style
  /\ CountOf("P") > 5
  /\ typo.headings["h1"].count = 2
  /\ Len(typo.paragraphs) = 5
  /\ typo.paragraphs[1] # typo.paragraphs[2]

====
